---- MODULE Spec2Model ----
(***************************************************************************)
(* Model of the bridge server (src/bridge_server.py): two websocket        *)
(* receivers append media packets to in-memory buffers, a periodic task     *)
(* (process_buffers) drains them, writes temporary elementary-stream files, *)
(* runs an external transcoder and publishes the result by one move; and of *)
(* the directory watcher (src/watcher.py) that posts published chunks.      *)
(***************************************************************************)
EXTENDS Integers, Sequences, FiniteSets, TLC

VARIABLES
    now,            \* time.time(), in seconds
    video_buffer,   \* list of packets {'data', 'time'} (+ arrival number, history)
    audio_buffer,
    video_header,   \* None or the first video payload
    buffer_lock,    \* "free" or the task holding asyncio.Lock
    conn,           \* per websocket connection: "closed" or "receiving"
    pc,             \* position of process_buffers
    wake_at,        \* when the pending asyncio.sleep(CHUNK_DURATION) returns
    current_video,  \* locals of process_buffers
    current_audio,
    chunk_counter,
    timestamp,
    process,        \* the transcoder subprocess of the current chunk
    fs,             \* the filesystem: path -> content, for the files that exist
    fs_log,         \* history: every operation that created, moved or removed a file
    drained,        \* history: the batches each drain returned, per media kind
    arrivals,       \* history: number of packets appended, per media kind
    chunks,         \* history: each chunk handed to the muxer and how it ended
    ex_in,          \* extract_payload under test: the text frame
    ex_out,         \* extract_payload under test: the returned value
    inbox,          \* watcher.py: file events of ./chunks not yet handled
    forwarded       \* watcher.py: the paths posted to the analysis API

vars == <<now, video_buffer, audio_buffer, video_header, buffer_lock, conn, pc,
          wake_at, current_video, current_audio, chunk_counter, timestamp,
          process, fs, fs_log, drained, arrivals, chunks,
          ex_in, ex_out, inbox, forwarded>>

watcherVars == <<inbox, forwarded>>

bridgeVars == <<now, video_buffer, audio_buffer, video_header, buffer_lock, conn,
                pc, wake_at, current_video, current_audio, chunk_counter,
                timestamp, process, fs, fs_log, drained, arrivals, chunks>>

----------------------------------------------------------------------------
(* Bounds of the model *)

MaxTime == 30       \* the clock stops advancing here
ClockStep == 15     \* resolution at which the clock is observed
MaxPackets == 3     \* packets accepted over a run, both kinds together
MaxBytes == 3       \* length of a byte sequence sent through extract_payload

(* Program constants *)

CHUNK_DURATION == 15    \* seconds slept between ticks
MIN_DURATION == 15      \* a tick spanning less is skipped
MIN_SIZE == 51200       \* 50 * 1024: an output must be larger
FPS_DEFAULT == 30
FPS_MIN == 1
FPS_MAX == 60
SPAN_FLOOR_TENTHS == 1  \* the rate is computed only when the span exceeds 0.1 s

----------------------------------------------------------------------------
(* Python values *)

\* None, distinct from every bytes value (bytes are sequences over 0..255)
None == <<-1>>

\* truthiness of "bytes or None": None and b"" are falsy
TruthyMutant(payload) == payload # None
Truthy(payload) == payload # None /\ payload # <<>>

----------------------------------------------------------------------------
(* base64.b64decode(s) on a str, validate=False.  A character is its       *)
(* 6-bit value (0..63), PadChar for '=', OtherChar for any other ASCII      *)
(* character, NonAscii for a character outside ASCII.                       *)

PadChar == 64
OtherChar == 65
NonAscii == 66

Ok(bytes) == [ok |-> TRUE, bytes |-> bytes]
DecodeError == [ok |-> FALSE, bytes |-> <<>>]

RECURSIVE a2b_base64(_, _, _, _, _, _)
a2b_base64(s, i, quad_pos, leftchar, pads, out) ==
    IF i > Len(s)
    THEN IF quad_pos # 0 THEN DecodeError ELSE Ok(out)
    ELSE LET ch == s[i] IN
         IF ch = PadChar
         THEN IF quad_pos >= 2 /\ quad_pos + pads + 1 >= 4
              THEN Ok(out)
              ELSE a2b_base64(s, i + 1, quad_pos, leftchar,
                              IF quad_pos >= 2 THEN pads + 1 ELSE pads, out)
         ELSE IF ch >= 64
         THEN a2b_base64(s, i + 1, quad_pos, leftchar, pads, out)
         ELSE CASE quad_pos = 0 ->
                     a2b_base64(s, i + 1, 1, ch, 0, out)
                [] quad_pos = 1 ->
                     a2b_base64(s, i + 1, 2, ch % 16, 0,
                                Append(out, leftchar * 4 + ch \div 16))
                [] quad_pos = 2 ->
                     a2b_base64(s, i + 1, 3, ch % 4, 0,
                                Append(out, leftchar * 16 + ch \div 4))
                [] OTHER ->
                     a2b_base64(s, i + 1, 0, 0, 0,
                                Append(out, leftchar * 64 + ch))

b64decode(s) ==
    IF \E i \in 1..Len(s) : s[i] = NonAscii
    THEN DecodeError
    ELSE a2b_base64(s, 1, 0, 0, 0, <<>>)

----------------------------------------------------------------------------
(* JSON documents, as json.loads returns them *)

JStr(s) == [t |-> "str", s |-> s, m |-> <<>>]
JObj(m) == [t |-> "obj", s |-> <<>>, m |-> m]
JNum == [t |-> "num", s |-> <<>>, m |-> <<>>]
JList == [t |-> "list", s |-> <<>>, m |-> <<>>]
Invalid == [t |-> "invalid", s |-> <<>>, m |-> <<>>]

Has(doc, key) == doc.t = "obj" /\ key \in DOMAIN doc.m

\* data["data"]["data"]["buffer"] is reachable without KeyError or TypeError
HasNested(doc) ==
    /\ Has(doc, "data")
    /\ Has(doc.m["data"], "data")
    /\ Has(doc.m["data"].m["data"], "buffer")

Nested(doc) == doc.m["data"].m["data"].m["buffer"]

\* the result of a b64decode call that ends extract_payload: bytes, or None
\* through the outer "except Exception"
Decoded(s) == LET r == b64decode(s) IN IF r.ok THEN r.bytes ELSE None

extract_payload_mutant(doc) ==
    IF doc.t # "obj" THEN None
    ELSE IF HasNested(doc) /\ Nested(doc).t = "str" /\ b64decode(Nested(doc).s).ok
    THEN Decoded(Nested(doc).s)
    ELSE IF Has(doc, "data") /\ doc.m["data"].t = "str" /\ b64decode(doc.m["data"].s).ok
    THEN Decoded(doc.m["data"].s)
    ELSE IF Has(doc, "payload") /\ doc.m["payload"].t = "str"
    THEN Decoded(doc.m["payload"].s)
    ELSE None

\* The outcome of an expression: the exception it raises ("" for none) and
\* its value.  json.JSONDecodeError and binascii.Error are ValueErrors.
Value(v) == [exc |-> "", value |-> v]
Raise(exc) == [exc |-> exc, value |-> None]

\* data[key], key a str
Subscript(doc, key) ==
    IF doc.t # "obj" THEN Raise("TypeError")
    ELSE IF key \in DOMAIN doc.m THEN Value(doc.m[key])
    ELSE Raise("KeyError")

\* key in data; no string or list of the documents used contains "data" or
\* "payload"
Contains(doc, key) ==
    IF doc.t = "obj" THEN Value(key \in DOMAIN doc.m)
    ELSE IF doc.t \in {"str", "list"} THEN Value(FALSE)
    ELSE Raise("TypeError")

\* base64.b64decode(v) of a JSON value
B64(v) ==
    IF v.t # "str" THEN Raise("TypeError")
    ELSE LET r == b64decode(v.s) IN IF r.ok THEN Value(r.bytes) ELSE Raise("ValueError")

\* lines 44-45: base64.b64decode(data["data"]["data"]["buffer"])
InnerTry(doc) ==
    LET a == Subscript(doc, "data")
        b == IF a.exc = "" THEN Subscript(a.value, "data") ELSE a
        c == IF b.exc = "" THEN Subscript(b.value, "buffer") ELSE b
    IN  IF c.exc = "" THEN B64(c.value) ELSE c

\* line 46: except (KeyError, TypeError)
InnerCatches(exc) == exc \in {"KeyError", "TypeError"}

TryBodyMutant(doc) ==
    IF doc.t = "invalid" THEN Raise("ValueError")
    ELSE LET inner == InnerTry(doc) IN
         IF inner.exc = "" \/ ~InnerCatches(inner.exc) THEN inner
         ELSE IF Contains(doc, "data").exc # "" THEN Contains(doc, "data")
         ELSE IF Contains(doc, "data").value /\ doc.m["data"].t = "str"
         THEN B64(doc.m["data"])
         ELSE Value(None)

\* lines 42-53: the body of the outer try
TryBody(doc) ==
    IF doc.t = "invalid" THEN Raise("ValueError")
    ELSE LET inner == InnerTry(doc) IN
         IF inner.exc = "" \/ ~InnerCatches(inner.exc) THEN inner
         ELSE IF Contains(doc, "data").exc # "" THEN Contains(doc, "data")
         ELSE IF Contains(doc, "data").value /\ doc.m["data"].t = "str"
         THEN B64(doc.m["data"])
         ELSE IF Contains(doc, "payload").value /\ doc.m["payload"].t = "str"
         THEN B64(doc.m["payload"])
         ELSE Value(None)

\* line 54: except Exception
OuterCatchesMutant(exc) == exc \in {"KeyError", "TypeError"}
OuterCatches(exc) == TRUE

\* an exception left the function, distinct from None and from every bytes value
Raised == <<-2>>

extract_payload(doc) ==
    LET r == TryBody(doc)
    IN  IF r.exc = "" THEN r.value
        ELSE IF OuterCatches(r.exc) THEN None
        ELSE Raised

----------------------------------------------------------------------------
(* Websocket frames: message["bytes"] or message["text"] *)

BinaryFrame(b) == [type |-> "bytes", bytes |-> b, text |-> Invalid]
TextFrame(doc) == [type |-> "text", bytes |-> <<>>, text |-> doc]

\* "QQ==" is base64 of the one byte 65
Frames ==
    { BinaryFrame(<<1>>),
      BinaryFrame(<<>>),
      TextFrame(JObj([data |-> JStr(<<16, 16, PadChar, PadChar>>)])),
      TextFrame(Invalid) }

\* lines 68-73 of the receive loops
PayloadOf(message) ==
    IF message.type = "bytes" THEN message.bytes ELSE extract_payload(message.text)

Conns == {"v1", "v2", "a1"}
Kind(c) == IF c = "a1" THEN "audio" ELSE "video"

----------------------------------------------------------------------------
(* Files.  A path is the directory and the parts its f-string is built     *)
(* from: prefix, stem, "_", timestamp, then "_" and the counter where the   *)
(* name carries one (ctr = -1 where it does not), ".", extension.           *)

Path(dir, prefix, stem, ts, ctr, ext) ==
    [dir |-> dir, prefix |-> prefix, stem |-> stem, ts |-> ts, ctr |-> ctr,
     ext |-> ext]
NoPath == Path("", "", "", -1, -1, "")

temp_video_path(ts, ctr) == Path("/tmp", "", "chunk", ts, ctr, "h264")
temp_audio_path(ts, ctr) == Path("/tmp", "", "chunk", ts, ctr, "pcm")
ffmpeg_log_path(ts, ctr) == Path("/tmp", "", "chunk", ts, ctr, "ffmpeg.log")
output_filename(ts) == Path("", "", "live_stream", ts, -1, "mp4")
temp_output_path(ts) == [output_filename(ts) EXCEPT !.dir = "chunks", !.prefix = ".temp_"]
final_output_path(ts) == [output_filename(ts) EXCEPT !.dir = "chunks"]

\* the output path on the ffmpeg command line
cmd_output_mutant(ts) == final_output_path(ts)
cmd_output(ts) == temp_output_path(ts)

Raw(bytes) == [k |-> "raw", bytes |-> bytes, size |-> Len(bytes)]
Mp4(size) == [k |-> "mp4", bytes |-> <<>>, size |-> size]

Exists(f, p) == p \in DOMAIN f
WriteFile(f, p, content) == (p :> content) @@ f
RemoveFile(f, p) == [q \in DOMAIN f \ {p} |-> f[q]]
MoveFile(f, src, dst) == (dst :> f[src]) @@ RemoveFile(f, src)

RECURSIVE RemoveAll(_, _)
RemoveAll(f, ps) ==
    IF ps = {} THEN f
    ELSE LET p == CHOOSE q \in ps : TRUE
         IN  RemoveAll(IF Exists(f, p) THEN RemoveFile(f, p) ELSE f, ps \ {p})

Event(op, path, src, rc, size) ==
    [op |-> op, path |-> path, src |-> src, rc |-> rc, size |-> size]
Wrote(p) == Event("write", p, NoPath, -1, -1)
Removed(p) == Event("remove", p, NoPath, -1, -1)

\* sizes a transcoder output can have: at the floor, and above it
OutSizes == {MIN_SIZE, MIN_SIZE + 1}

----------------------------------------------------------------------------
(* Packets and the pure parts of a tick *)

Packet(data, time, seq) == [data |-> data, time |-> time, seq |-> seq]

RECURSIVE Concat(_)
Concat(packets) ==
    IF packets = <<>> THEN <<>>
    ELSE IF Len(packets) = 1 THEN packets[1].data
    ELSE LET half == Len(packets) \div 2
         IN  Concat(SubSeq(packets, 1, half))
                 \o Concat(SubSeq(packets, half + 1, Len(packets)))

\* list.clear()
ClearedMutant(buffer) == buffer
Cleared(buffer) == <<>>

\* t_end - t_start, lines 153-155
Duration(video) == video[Len(video)].time - video[1].time

TooShortMutant(video) == FALSE
TooShort(video) == Duration(video) < MIN_DURATION

InputFpsMutant(video) ==
    LET n == Len(video)
        d == Duration(video)
        raw == IF 10 * d > SPAN_FLOOR_TENTHS
               THEN (200 * n + d) \div (2 * d)
               ELSE 100 * FPS_DEFAULT
    IN  IF raw < 100 * FPS_MIN THEN 100 * FPS_MIN ELSE raw

\* lines 162-169, in hundredths of a frame per second; (200n + d) \div 2d is
\* 100n/d rounded to the nearest integer, which is round(n/d, 2) whenever
\* 100n/d is not halfway between two integers
InputFps(video) ==
    LET n == Len(video)
        d == Duration(video)
        raw == IF 10 * d > SPAN_FLOOR_TENTHS
               THEN (200 * n + d) \div (2 * d)
               ELSE 100 * FPS_DEFAULT
        low == IF raw > 100 * FPS_MAX THEN 100 * FPS_MAX ELSE raw
    IN  IF low < 100 * FPS_MIN THEN 100 * FPS_MIN ELSE low

\* lines 190-194: the header, if set, then the packets
VideoFileMutant(header, video) ==
    IF Truthy(header) /\ video[1].seq = 1 THEN header \o Concat(video)
    ELSE Concat(video)
VideoFile(header, video) ==
    IF Truthy(header) THEN header \o Concat(video) ELSE Concat(video)

\* line 248
BigEnoughMutant(size) == size >= MIN_SIZE
BigEnough(size) == size > MIN_SIZE

\* lines 258-260: what the exit-code-0 branch removes after validation
CleanupPathsMutant(ts, ctr) ==
    {ffmpeg_log_path(ts, ctr), temp_audio_path(ts, ctr)}
CleanupPaths(ts, ctr) ==
    {ffmpeg_log_path(ts, ctr), temp_video_path(ts, ctr), temp_audio_path(ts, ctr)}

\* lines 263-264: what the non-zero branch removes
FailurePathsMutant(ts, ctr) == {temp_output_path(ts), ffmpeg_log_path(ts, ctr)}
FailurePaths(ts, ctr) == {temp_output_path(ts)}

RemovedFrom(f, ps) == {Removed(p) : p \in {q \in ps : Exists(f, q)}}

\* run_system.py starts every service through start_process, which hands
\* os.setsid to Popen: each service leads a session and a process group of its
\* own, named here after the service
processes == {"API", "BRIDGE", "WATCHER", "NGROK"}
getpgid(service) == service

\* asyncio.create_subprocess_exec is given neither start_new_session nor a
\* preexec_fn (bridge_server.py line 237): the child stays in the process
\* group of the process that started it
ChildGroupMutant(parent) == "TRANSCODER"
ChildGroup(parent) == getpgid(parent)

NoProcess ==
    [st |-> "none", returncode |-> -1, fps |-> 0, video |-> NoPath,
     audio |-> NoPath, has_audio |-> FALSE, out |-> NoPath, pgid |-> "none"]

\* history of one chunk: its counter and timestamp, the drain it was made from,
\* how it ended, at what time, and how many packets had arrived by then
Chunk(ctr, ts, tick) ==
    [ctr |-> ctr, ts |-> ts, tick |-> tick, outcome |-> "running", rc |-> -1,
     existed |-> FALSE, size |-> -1, ended |-> -1,
     seen |-> [k \in {"video", "audio"} |-> -1]]

\* watchdog events of the watched folder (TARGET_FOLDER, not recursive): a file
\* opened for writing was closed, a file was renamed
TARGET_FOLDER == "chunks"
FileClosedEvent(path) ==
    [kind |-> "closed", src_path |-> path, dest_path |-> NoPath,
     is_directory |-> FALSE]
FileMovedEvent(src, dst) ==
    [kind |-> "moved", src_path |-> src, dest_path |-> dst,
     is_directory |-> FALSE]
Observed(events) ==
    {e \in events : e.src_path.dir = TARGET_FOLDER \/ e.dest_path.dir = TARGET_FOLDER}

\* the text-frame document handed to extract_payload, and what it returned
NotCalled == [done |-> FALSE, value |-> None]
Returns(value) == [done |-> TRUE, value |-> value]

----------------------------------------------------------------------------
Init ==
    /\ now = 0
    /\ video_buffer = <<>>
    /\ audio_buffer = <<>>
    /\ video_header = None
    /\ buffer_lock = "free"
    /\ conn = [c \in Conns |-> "closed"]
    /\ pc = "sleep"
    /\ wake_at = CHUNK_DURATION
    /\ current_video = <<>>
    /\ current_audio = <<>>
    /\ chunk_counter = 0
    /\ timestamp = 0
    /\ process = NoProcess
    /\ fs = <<>>
    /\ fs_log = {}
    /\ drained = [k \in {"video", "audio"} |-> <<>>]
    /\ arrivals = [k \in {"video", "audio"} |-> 0]
    /\ chunks = <<>>
    /\ ex_in = Invalid
    /\ ex_out = NotCalled
    /\ inbox = {}
    /\ forwarded = {}

----------------------------------------------------------------------------
(* The clock *)

\* time.time() reads later by step, up to the end of the run
Advance(step, end) ==
    /\ now + step <= end
    /\ now' = now + step
    /\ UNCHANGED <<video_buffer, audio_buffer, video_header, buffer_lock, conn,
                   pc, wake_at, current_video, current_audio, chunk_counter,
                   timestamp, process, fs, fs_log, drained, arrivals, chunks, ex_in, ex_out, inbox, forwarded>>

Tick == Advance(ClockStep, MaxTime)

----------------------------------------------------------------------------
(* video_endpoint and audio_endpoint, one handler per connection.  asyncio  *)
(* runs a coroutine without interruption from one await to the next, and an *)
(* asyncio.Lock that is free is acquired without suspending: a receive loop *)
(* runs from the return of websocket.receive() to the next call in one      *)
(* step, the critical section included.                                     *)

Accepted == arrivals["video"] + arrivals["audio"]

\* await websocket.accept()
Connect(c) ==
    /\ conn[c] = "closed"
    /\ conn' = [conn EXCEPT ![c] = "receiving"]
    /\ UNCHANGED <<now, video_buffer, audio_buffer, video_header, buffer_lock,
                   pc, wake_at, current_video, current_audio, chunk_counter,
                   timestamp, process, fs, fs_log, drained, arrivals, chunks, ex_in, ex_out, inbox, forwarded>>

\* the header assignment of video_endpoint, lines 77-79
SetHeaderMutant(header, payload) == payload
SetHeader(header, payload) == IF header = None THEN payload ELSE header

\* one frame arrives: the payload is extracted; a falsy payload drops the frame,
\* a truthy one is appended under the lock (and the video endpoint captures the
\* header first); an exception out of the extraction would end the loop through
\* "except Exception"
Deliver(c, message, limit) ==
    /\ conn[c] = "receiving"
    /\ LET payload == PayloadOf(message)
           k == Kind(c)
           packet == Packet(payload, now, arrivals[k] + 1)
       IN
       IF payload = Raised
       THEN /\ conn' = [conn EXCEPT ![c] = "closed"]
            /\ UNCHANGED <<video_buffer, audio_buffer, video_header, arrivals>>
       ELSE IF Truthy(payload)
       THEN /\ Accepted < limit
            /\ buffer_lock = "free"
            /\ IF k = "video"
               THEN /\ video_header' = SetHeader(video_header, payload)
                    /\ video_buffer' = Append(video_buffer, packet)
                    /\ UNCHANGED audio_buffer
               ELSE /\ audio_buffer' = Append(audio_buffer, packet)
                    /\ UNCHANGED <<video_header, video_buffer>>
            /\ arrivals' = [arrivals EXCEPT ![k] = @ + 1]
            /\ UNCHANGED conn
       ELSE UNCHANGED <<video_buffer, audio_buffer, video_header, arrivals, conn>>
    /\ UNCHANGED <<now, buffer_lock, pc, wake_at, current_video,
                   current_audio, chunk_counter, timestamp, process, fs, fs_log,
                   drained, chunks, inbox, forwarded>>

Receive(c, message) == Deliver(c, message, MaxPackets) /\ UNCHANGED <<ex_in, ex_out>>

DisconnectMutant(c) ==
    /\ conn[c] = "receiving"
    /\ conn' = [d \in Conns |-> "closed"]
    /\ UNCHANGED <<now, video_buffer, audio_buffer, video_header, buffer_lock,
                   pc, wake_at, current_video, current_audio, chunk_counter,
                   timestamp, process, fs, fs_log, drained, arrivals, chunks,
                   ex_in, ex_out, inbox, forwarded>>

\* the peer disconnects or the transport fails: websocket.receive() raises (or
\* returns the disconnect message and raises on the next call), the handler
\* prints and returns
Disconnect(c) ==
    /\ conn[c] = "receiving"
    /\ conn' = [conn EXCEPT ![c] = "closed"]
    /\ UNCHANGED <<now, video_buffer, audio_buffer, video_header, buffer_lock,
                   pc, wake_at, current_video, current_audio, chunk_counter,
                   timestamp, process, fs, fs_log, drained, arrivals, chunks, ex_in, ex_out, inbox, forwarded>>

----------------------------------------------------------------------------
(* process_buffers, from the return of asyncio.sleep to the next await *)

\* the lock on leaving "async with buffer_lock", line 145
AfterDrainMutant == "process_buffers"
AfterDrain == "free"

\* lines 131-145: the sleep is over, the locals are reset, and both buffers are
\* copied and cleared under the lock
Drain ==
    /\ pc = "sleep"
    /\ now >= wake_at
    /\ buffer_lock = "free"
    /\ current_video' = video_buffer
    /\ video_buffer' = Cleared(video_buffer)
    /\ current_audio' = audio_buffer
    /\ audio_buffer' = Cleared(audio_buffer)
    /\ drained' = [k \in {"video", "audio"} |->
                      Append(drained[k],
                             IF k = "video" THEN video_buffer ELSE audio_buffer)]
    /\ buffer_lock' = AfterDrain
    /\ UNCHANGED <<now, video_header, conn, arrivals,
                   ex_in, ex_out, inbox, forwarded>>

\* what "continue" at lines 149 and 159 leaves of the counter
AfterSkipMutant(counter) == counter + 1
AfterSkip(counter) == counter

\* a skipped tick that puts the audio it drained back for the next tick
SkipEmptyMutant ==
    /\ pc = "sleep"
    /\ now >= wake_at
    /\ buffer_lock = "free"
    /\ video_buffer = <<>>
    /\ current_video' = <<>>
    /\ current_audio' = audio_buffer
    /\ drained' = [k \in {"video", "audio"} |->
                      Append(drained[k],
                             IF k = "video" THEN video_buffer ELSE audio_buffer)]
    /\ buffer_lock' = AfterDrain
    /\ chunk_counter' = AfterSkip(chunk_counter)
    /\ pc' = "sleep"
    /\ wake_at' = now + CHUNK_DURATION
    /\ UNCHANGED <<now, video_buffer, audio_buffer, video_header, conn,
                   arrivals, timestamp, process, fs, fs_log, chunks,
                   ex_in, ex_out, inbox, forwarded>>

\* lines 148-149: no video, the tick is skipped
SkipEmpty ==
    /\ Drain
    /\ current_video' = <<>>
    /\ chunk_counter' = AfterSkip(chunk_counter)
    /\ pc' = "sleep"
    /\ wake_at' = now + CHUNK_DURATION
    /\ UNCHANGED <<timestamp, process, fs, fs_log, chunks>>

\* lines 153-159: the span is too short, the tick is skipped
SkipShort ==
    /\ Drain
    /\ current_video' # <<>>
    /\ TooShort(current_video')
    /\ chunk_counter' = AfterSkip(chunk_counter)
    /\ pc' = "sleep"
    /\ wake_at' = now + CHUNK_DURATION
    /\ UNCHANGED <<timestamp, process, fs, fs_log, chunks>>

\* lines 162-241: names, temporary inputs, the log, and the transcoder is started
StartChunk ==
    /\ Drain
    /\ current_video' # <<>>
    /\ ~TooShort(current_video')
    /\ LET ts == now * 1000
           ctr == chunk_counter
           has_audio == current_audio' # <<>>
           f1 == WriteFile(fs, temp_video_path(ts, ctr),
                           Raw(VideoFile(video_header, current_video')))
           f2 == IF has_audio
                 THEN WriteFile(f1, temp_audio_path(ts, ctr), Raw(Concat(current_audio')))
                 ELSE f1
       IN  /\ timestamp' = ts
           /\ fs' = WriteFile(f2, ffmpeg_log_path(ts, ctr), Raw(<<>>))
           /\ fs_log' = fs_log
                  \cup {Wrote(temp_video_path(ts, ctr)), Wrote(ffmpeg_log_path(ts, ctr))}
                  \cup (IF has_audio THEN {Wrote(temp_audio_path(ts, ctr))} ELSE {})
           /\ process' = [st |-> "running", returncode |-> -1,
                          fps |-> InputFps(current_video'),
                          video |-> temp_video_path(ts, ctr),
                          audio |-> temp_audio_path(ts, ctr),
                          has_audio |-> has_audio,
                          out |-> cmd_output(ts),
                          pgid |-> ChildGroup("BRIDGE")]
           /\ chunks' = Append(chunks, Chunk(ctr, ts, Len(drained'["video"])))
    /\ pc' = "wait"
    /\ UNCHANGED <<wake_at, chunk_counter>>

----------------------------------------------------------------------------
(* The external transcoder: it writes only the output path of its command  *)
(* line, possibly in several growing writes, and exits with some code; it   *)
(* may also never exit.                                                     *)

TranscoderWrite(size) ==
    /\ process.st = "running"
    /\ Exists(fs, process.out) => fs[process.out].size < size
    /\ fs' = WriteFile(fs, process.out, Mp4(size))
    /\ fs_log' = fs_log \cup {Wrote(process.out)}
    /\ inbox' = inbox \cup Observed({FileClosedEvent(process.out)})
    /\ UNCHANGED <<now, video_buffer, audio_buffer, video_header, buffer_lock,
                   conn, pc, wake_at, current_video, current_audio,
                   chunk_counter, timestamp, process, drained, arrivals, chunks,
                   ex_in, ex_out, forwarded>>

TranscoderExit(rc) ==
    /\ process.st = "running"
    /\ process' = [process EXCEPT !.st = "exited", !.returncode = rc]
    /\ UNCHANGED <<now, video_buffer, audio_buffer, video_header, buffer_lock,
                   conn, pc, wake_at, current_video, current_audio,
                   chunk_counter, timestamp, fs, fs_log, drained, arrivals, chunks, ex_in, ex_out, inbox, forwarded>>

----------------------------------------------------------------------------
(* process_buffers after "await process.wait()": lines 245-270 *)

\* "finally: chunk_counter += 1", lines 269-270
FinallyMutant(counter) == counter
Finally(counter) == counter + 1

\* "await process.wait()" has returned, line 242
ReturnedMutant == pc = "wait"
Returned == pc = "wait" /\ process.st = "exited"

\* the chunk is over: "finally" advances the counter and the loop sleeps again
EndChunk(outcome, existed, size) ==
    /\ chunks' = [chunks EXCEPT ![Len(chunks)] =
                     [@ EXCEPT !.outcome = outcome, !.rc = process.returncode,
                               !.existed = existed, !.size = size,
                               !.ended = now, !.seen = arrivals]]
    /\ chunk_counter' = Finally(chunk_counter)
    /\ pc' = "sleep"
    /\ wake_at' = now + CHUNK_DURATION
    /\ UNCHANGED <<now, video_buffer, audio_buffer, video_header, buffer_lock,
                   conn, current_video, current_audio, timestamp, process,
                   drained, arrivals, ex_in, ex_out, forwarded>>

\* lines 245-250 and 258-260
Publish ==
    /\ Returned
    /\ process.returncode = 0
    /\ Exists(fs, temp_output_path(timestamp))
    /\ BigEnough(fs[temp_output_path(timestamp)].size)
    /\ LET src == temp_output_path(timestamp)
           dst == final_output_path(timestamp)
           moved == MoveFile(fs, src, dst)
           gone == CleanupPaths(timestamp, chunk_counter)
       IN  /\ fs' = RemoveAll(moved, gone)
           /\ fs_log' = fs_log
                  \cup {Event("move", dst, src, process.returncode, fs[src].size)}
                  \cup RemovedFrom(moved, gone)
           /\ inbox' = inbox \cup Observed({FileMovedEvent(src, dst)})
           /\ EndChunk("published", TRUE, fs[src].size)

\* lines 251-253 and 258-260
DiscardSmall ==
    /\ Returned
    /\ process.returncode = 0
    /\ Exists(fs, temp_output_path(timestamp))
    /\ ~BigEnough(fs[temp_output_path(timestamp)].size)
    /\ LET src == temp_output_path(timestamp)
           gone == {src} \cup CleanupPaths(timestamp, chunk_counter)
       IN  /\ fs' = RemoveAll(fs, gone)
           /\ fs_log' = fs_log \cup RemovedFrom(fs, gone)
           /\ UNCHANGED inbox
           /\ EndChunk("small", TRUE, fs[src].size)

\* lines 254-255 and 258-260
OutputMissing ==
    /\ Returned
    /\ process.returncode = 0
    /\ ~Exists(fs, temp_output_path(timestamp))
    /\ LET gone == CleanupPaths(timestamp, chunk_counter)
       IN  /\ fs' = RemoveAll(fs, gone)
           /\ fs_log' = fs_log \cup RemovedFrom(fs, gone)
           /\ UNCHANGED inbox
           /\ EndChunk("missing", FALSE, -1)

\* lines 261-264
TranscoderFailed ==
    /\ Returned
    /\ process.returncode # 0
    /\ LET src == temp_output_path(timestamp)
           gone == FailurePaths(timestamp, chunk_counter)
       IN  /\ fs' = RemoveAll(fs, gone)
           /\ fs_log' = fs_log \cup RemovedFrom(fs, gone)
           /\ UNCHANGED inbox
           /\ EndChunk("failed", Exists(fs, src),
                       IF Exists(fs, src) THEN fs[src].size ELSE -1)

----------------------------------------------------------------------------
Next ==
    \/ Tick
    \/ \E c \in Conns : Connect(c)
    \/ \E c \in Conns, message \in Frames : Receive(c, message)
    \/ \E c \in Conns : Disconnect(c)
    \/ SkipEmpty
    \/ SkipShort
    \/ StartChunk
    \/ \E size \in OutSizes : TranscoderWrite(size)
    \/ \E rc \in {0, 1} : TranscoderExit(rc)
    \/ Publish
    \/ DiscardSmall
    \/ OutputMissing
    \/ TranscoderFailed

Spec == Init /\ [][Next]_vars

----------------------------------------------------------------------------
(* A filesystem that can fail.  Everything from the first temporary write   *)
(* to the cleanup runs inside "try"; an exception is printed by "except      *)
(* Exception" (lines 266-267), "finally" advances the counter (269-270) and  *)
(* the loop goes back to its sleep.                                          *)

\* where process_buffers is after the except and finally clauses
AfterExceptionMutant == "stopped"
AfterException == "sleep"

\* the statements of lines 190-241 that can raise: opening the temporary
\* video, the temporary audio, the log, and starting the transcoder
Stages == {"video", "audio", "log", "exec"}

\* the temporary files written before the statement of the stage raises
WrittenBefore(stage, ts, ctr, has_audio) ==
    (IF stage # "video" THEN {temp_video_path(ts, ctr)} ELSE {})
        \cup (IF stage \in {"log", "exec"} /\ has_audio
              THEN {temp_audio_path(ts, ctr)} ELSE {})
        \cup (IF stage = "exec" THEN {ffmpeg_log_path(ts, ctr)} ELSE {})

RECURSIVE WriteAll(_, _, _)
WriteAll(f, ps, content) ==
    IF ps = {} THEN f
    ELSE LET p == CHOOSE q \in ps : TRUE
         IN  WriteAll(WriteFile(f, p, content[p]), ps \ {p}, content)

\* a tick passes admission and an exception is raised before the transcoder runs
StartChunkFault(stage) ==
    /\ Drain
    /\ current_video' # <<>>
    /\ ~TooShort(current_video')
    /\ stage = "audio" => current_audio' # <<>>
    /\ LET ts == now * 1000
           ctr == chunk_counter
           has_audio == current_audio' # <<>>
           written == WrittenBefore(stage, ts, ctr, has_audio)
           content == [q \in written |->
                          IF q = temp_video_path(ts, ctr)
                          THEN Raw(VideoFile(video_header, current_video'))
                          ELSE IF q = temp_audio_path(ts, ctr)
                          THEN Raw(Concat(current_audio'))
                          ELSE Raw(<<>>)]
       IN  /\ timestamp' = ts
           /\ fs' = WriteAll(fs, written, content)
           /\ fs_log' = fs_log \cup {Wrote(q) : q \in written}
           /\ chunks' = Append(chunks,
                  [Chunk(ctr, ts, Len(drained'["video"])) EXCEPT
                      !.outcome = "error", !.ended = now, !.seen = arrivals])
    /\ chunk_counter' = Finally(chunk_counter)
    /\ pc' = AfterException
    /\ wake_at' = now + CHUNK_DURATION
    /\ UNCHANGED process

\* line 249: shutil.move raises, nothing is renamed, the cleanup is not reached
PublishFault ==
    /\ Returned
    /\ process.returncode = 0
    /\ Exists(fs, temp_output_path(timestamp))
    /\ BigEnough(fs[temp_output_path(timestamp)].size)
    /\ chunks' = [chunks EXCEPT ![Len(chunks)] =
                     [@ EXCEPT !.outcome = "error", !.rc = process.returncode,
                               !.existed = TRUE,
                               !.size = fs[temp_output_path(timestamp)].size,
                               !.ended = now, !.seen = arrivals]]
    /\ chunk_counter' = Finally(chunk_counter)
    /\ pc' = AfterException
    /\ wake_at' = now + CHUNK_DURATION
    /\ UNCHANGED <<now, video_buffer, audio_buffer, video_header, buffer_lock,
                   conn, current_video, current_audio, timestamp, process,
                   fs, fs_log, drained, arrivals, ex_in, ex_out, inbox, forwarded>>

NextFault ==
    \/ Next
    \/ \E stage \in Stages : StartChunkFault(stage)
    \/ PublishFault

SpecFault == Init /\ [][NextFault]_vars

----------------------------------------------------------------------------
(* The directory watcher (src/watcher.py), a separate process: watchdog      *)
(* delivers the events of ./chunks one at a time to PayloadHandler.          *)

\* os.path.basename(file_path): the name is prefix, stem, "_", timestamp and
\* so on; the stems do not begin with a dot and "ffmpeg.log" does not end
\* with ".mp4"
endswith_mp4(path) == path.ext = "mp4"
startswith_dot(path) == path.prefix = ".temp_"

PayloadHandler_process_mutant(posted, file_path) ==
    IF ~endswith_mp4(file_path) THEN posted
    ELSE posted \cup {file_path}

\* PayloadHandler.process: the paths posted to the API after the call
PayloadHandler_process(posted, file_path) ==
    IF ~endswith_mp4(file_path) THEN posted
    ELSE IF startswith_dot(file_path) THEN posted
    ELSE posted \cup {file_path}

on_closed ==
    \E event \in inbox :
        /\ event.kind = "closed"
        /\ inbox' = inbox \ {event}
        /\ forwarded' = (IF event.is_directory THEN forwarded
                         ELSE PayloadHandler_process(forwarded, event.src_path))
        /\ UNCHANGED <<bridgeVars, ex_in, ex_out>>

on_moved ==
    \E event \in inbox :
        /\ event.kind = "moved"
        /\ inbox' = inbox \ {event}
        /\ forwarded' = (IF event.is_directory THEN forwarded
                         ELSE PayloadHandler_process(forwarded, event.dest_path))
        /\ UNCHANGED <<bridgeVars, ex_in, ex_out>>

NextWatch ==
    \/ Next
    \/ on_closed
    \/ on_moved

SpecWatch == Init /\ [][NextWatch]_vars

----------------------------------------------------------------------------
(* A longer run: one more packet is accepted, so that a second chunk can    *)
(* follow a published one; every frame is the same binary frame.            *)

LongRun == MaxPackets + 1

NextLong ==
    \/ Tick
    \/ \E c \in Conns : Connect(c)
    \/ \E c \in Conns : Deliver(c, BinaryFrame(<<1>>), LongRun) /\ UNCHANGED <<ex_in, ex_out>>
    \/ \E c \in Conns : Disconnect(c)
    \/ SkipEmpty
    \/ SkipShort
    \/ StartChunk
    \/ \E size \in OutSizes : TranscoderWrite(size)
    \/ \E rc \in {0, 1} : TranscoderExit(rc)
    \/ Publish
    \/ DiscardSmall
    \/ OutputMissing
    \/ TranscoderFailed

SpecLong == Init /\ [][NextLong]_vars

----------------------------------------------------------------------------
(* Shutdown through the launcher (src/run_system.py).  SIGINT or SIGTERM    *)
(* runs cleanup, which sends SIGTERM to the process group of every service  *)
(* it started.  The kernel delivers the signal to every member of a group:  *)
(* the bridge stops serving, and a transcoder that is a member is           *)
(* terminated.  bridge_server.py itself has no shutdown handler.            *)

\* the process groups cleanup signals, lines 50-54
Signalled == {getpgid(p) : p \in processes}

\* the transcoder after the signal: terminated if its group was signalled
Terminated(proc, groups) ==
    IF proc.st = "running" /\ proc.pgid \in groups
    THEN [proc EXCEPT !.st = "terminated", !.returncode = 255]
    ELSE proc

Up == pc # "killed"

cleanup ==
    /\ Up
    /\ process' = Terminated(process, Signalled)
    /\ pc' = IF getpgid("BRIDGE") \in Signalled THEN "killed" ELSE pc
    /\ conn' = IF getpgid("BRIDGE") \in Signalled
               THEN [c \in Conns |-> "closed"] ELSE conn
    /\ UNCHANGED <<now, video_buffer, audio_buffer, video_header, buffer_lock,
                   wake_at, current_video, current_audio, chunk_counter,
                   timestamp, fs, fs_log, drained, arrivals, chunks,
                   ex_in, ex_out, inbox, forwarded>>

\* the services run until the launcher is signalled
NextShutdown ==
    \/ Up /\ Next
    \/ cleanup

SpecShutdown == Init /\ [][NextShutdown]_vars

----------------------------------------------------------------------------
(* A transcoder that hangs.  "await process.wait()" (line 242) is given no  *)
(* timeout and nothing else in process_buffers looks at the child: the      *)
(* coroutine resumes only when the transcoder exits.                        *)

\* the transcoder stops making progress and will never exit
TranscoderHang ==
    /\ process.st = "running"
    /\ process' = [process EXCEPT !.st = "hung"]
    /\ UNCHANGED <<now, video_buffer, audio_buffer, video_header, buffer_lock,
                   conn, pc, wake_at, current_video, current_audio,
                   chunk_counter, timestamp, fs, fs_log, drained, arrivals,
                   chunks, ex_in, ex_out, inbox, forwarded>>

\* every step of process_buffers
SchedulerStep ==
    \/ SkipEmpty
    \/ SkipShort
    \/ StartChunk
    \/ Publish
    \/ DiscardSmall
    \/ OutputMissing
    \/ TranscoderFailed

NextHang ==
    \/ Next
    \/ TranscoderHang

SpecHang == Init /\ [][NextHang]_vars

----------------------------------------------------------------------------
(* A steady stream.  One video connection, once accepted, delivers a packet *)
(* at every reading of the clock, the clock is read three times per sleep   *)
(* period, and the transcoder always writes a large enough output and       *)
(* exits 0.  The sleep of line 131 ends at its deadline or later; whether   *)
(* the packet of that same reading is appended before the drain or after it *)
(* is the event loop's choice.                                              *)

Beat == CHUNK_DURATION \div 3
SteadyEnd == 3 * CHUNK_DURATION
SteadyRun == SteadyEnd \div Beat + 1

\* the time of the newest video packet, -1 before the first
LastArrival ==
    LET batches == drained["video"]
        full == {i \in 1..Len(batches) : batches[i] # <<>>}
        newest == CHOOSE i \in full : \A j \in full : j <= i
    IN  IF video_buffer # <<>> THEN video_buffer[Len(video_buffer)].time
        ELSE IF full # {} THEN batches[newest][Len(batches[newest])].time
        ELSE -1

SteadyArrive ==
    /\ LastArrival < now
    /\ Deliver("v1", BinaryFrame(<<1>>), SteadyRun)
    /\ UNCHANGED <<ex_in, ex_out>>

SteadyBeat ==
    /\ conn["v1"] = "receiving" => LastArrival = now
    /\ Advance(Beat, SteadyEnd)

SteadyWrite == TranscoderWrite(MIN_SIZE + 1)

SteadyExit ==
    /\ Exists(fs, process.out)
    /\ TranscoderExit(0)

NextSteady ==
    \/ Connect("v1")
    \/ SteadyArrive
    \/ SteadyBeat
    \/ SkipEmpty
    \/ SkipShort
    \/ StartChunk
    \/ SteadyWrite
    \/ SteadyExit
    \/ Publish

SpecSteady == Init /\ [][NextSteady]_vars

----------------------------------------------------------------------------
(* One tick on its own: the video buffer holds a batch of packets that      *)
(* arrived at a uniform rate, the sleep is over, and the tick is taken.     *)

\* packets per batch and seconds from the first packet to the last; no pair
\* with a span of at least MIN_DURATION puts 100n/d halfway between integers
FpsCounts == {0, 1, 2, 10, 15, 30, 100, 150, 450, 900, 1000, 1800}
FpsSpans == {0, 10, 14, 15, 20, 30}

UniformBatch(n, span) ==
    [i \in 1..n |->
        Packet(<<1>>, IF n = 1 THEN 0 ELSE ((i - 1) * span) \div (n - 1), i)]

InitFps ==
    /\ \E n \in FpsCounts, span \in FpsSpans :
           /\ n <= 1 => span = 0
           /\ video_buffer = UniformBatch(n, span)
           /\ video_header = (IF n = 0 THEN None ELSE <<1>>)
           /\ now = (IF span > CHUNK_DURATION THEN span ELSE CHUNK_DURATION)
           /\ arrivals = [k \in {"video", "audio"} |-> IF k = "video" THEN n ELSE 0]
           /\ conn = [c \in Conns |-> IF c = "v1" /\ n > 0 THEN "receiving" ELSE "closed"]
    /\ audio_buffer = <<>>
    /\ buffer_lock = "free"
    /\ pc = "sleep"
    /\ wake_at = CHUNK_DURATION
    /\ current_video = <<>>
    /\ current_audio = <<>>
    /\ chunk_counter = 0
    /\ timestamp = 0
    /\ process = NoProcess
    /\ fs = <<>>
    /\ fs_log = {}
    /\ drained = [k \in {"video", "audio"} |-> <<>>]
    /\ chunks = <<>>
    /\ ex_in = Invalid
    /\ ex_out = NotCalled
    /\ inbox = {}
    /\ forwarded = {}

NextFps ==
    \/ SkipEmpty
    \/ SkipShort
    \/ StartChunk

SpecFps == InitFps /\ [][NextFps]_vars

----------------------------------------------------------------------------
(* extract_payload on its own: the document is drawn from a bounded set of  *)
(* text frames and the function is applied to it.                           *)

\* "QQ==" (b"A"), "QUI=" (b"AB"), "Q!Q==" (b"A", the '!' is skipped), "" (b""),
\* "QQ" (incorrect padding), "Q" (one data character), and a non-ASCII string
GoodStrings ==
    { <<16, 16, PadChar, PadChar>>,
      <<16, 20, 8, PadChar>>,
      <<16, OtherChar, 16, PadChar, PadChar>>,
      <<>> }
BadStrings == { <<16, 16>>, <<16>>, <<16, 16, NonAscii, PadChar, PadChar>> }
Strings == GoodStrings \cup BadStrings

Absent == [t |-> "absent", s |-> <<>>, m |-> <<>>]
Deep(v) == JObj([data |-> JObj([buffer |-> v])])

DataFields ==
    {Absent, JNum, JList, JObj([data |-> JNum]), Deep(JNum)}
        \cup {JStr(s) : s \in Strings}
        \cup {Deep(JStr(s)) : s \in Strings}
PayloadFields == {Absent, JNum} \cup {JStr(s) : s \in Strings}

Document(d, p) ==
    JObj([k \in {x \in {"data", "payload"} :
                    (x = "data" /\ d # Absent) \/ (x = "payload" /\ p # Absent)}
             |-> IF k = "data" THEN d ELSE p])

Documents ==
    {Document(d, p) : d \in DataFields, p \in PayloadFields}
        \cup {Invalid, JNum, JList, JStr(<<16, 16, PadChar, PadChar>>)}

\* base64.b64encode as the sending side applies it (RFC 4648, with padding)
RECURSIVE b64encode(_)
b64encode(bytes) ==
    IF bytes = <<>> THEN <<>>
    ELSE IF Len(bytes) = 1
    THEN <<bytes[1] \div 4, (bytes[1] % 4) * 16, PadChar, PadChar>>
    ELSE IF Len(bytes) = 2
    THEN <<bytes[1] \div 4, (bytes[1] % 4) * 16 + bytes[2] \div 16,
           (bytes[2] % 16) * 4, PadChar>>
    ELSE <<bytes[1] \div 4, (bytes[1] % 4) * 16 + bytes[2] \div 16,
           (bytes[2] % 16) * 4 + bytes[3] \div 64, bytes[3] % 64>>
         \o b64encode(SubSeq(bytes, 4, Len(bytes)))

\* the byte sequences sent, and the three shapes a text frame carries them in
ByteValues == {0, 65, 170, 255}
ByteSeqs == UNION {[1..n -> ByteValues] : n \in 0..MaxBytes}
Shapes == {"data.data.buffer", "data", "payload"}
Wrap(shape, s) ==
    IF shape = "data.data.buffer" THEN JObj([data |-> Deep(JStr(s))])
    ELSE IF shape = "data" THEN JObj([data |-> JStr(s)])
    ELSE JObj([payload |-> JStr(s)])
Encoded == {Wrap(shape, b64encode(bytes)) : shape \in Shapes, bytes \in ByteSeqs}

InitExtract ==
    /\ now = 0
    /\ video_buffer = <<>>
    /\ audio_buffer = <<>>
    /\ video_header = None
    /\ buffer_lock = "free"
    /\ conn = [c \in Conns |-> "closed"]
    /\ pc = "sleep"
    /\ wake_at = CHUNK_DURATION
    /\ current_video = <<>>
    /\ current_audio = <<>>
    /\ chunk_counter = 0
    /\ timestamp = 0
    /\ process = NoProcess
    /\ fs = <<>>
    /\ fs_log = {}
    /\ drained = [k \in {"video", "audio"} |-> <<>>]
    /\ arrivals = [k \in {"video", "audio"} |-> 0]
    /\ chunks = <<>>
    /\ ex_in \in Documents \cup Encoded
    /\ ex_out = NotCalled
    /\ inbox = {}
    /\ forwarded = {}

Extract ==
    /\ ~ex_out.done
    /\ ex_out' = Returns(extract_payload(ex_in))
    /\ UNCHANGED <<bridgeVars, watcherVars, ex_in>>

NextExtract == Extract

SpecExtract == InitExtract /\ [][NextExtract]_vars

----------------------------------------------------------------------------
(* The receive loops on their own, with the frame each iteration handled    *)
(* and the payload it took from it on record.                               *)

\* frames that carry nothing: an empty binary frame, and every text frame
\* from which extract_payload returns None or b""
NoPayloadFrames ==
    {BinaryFrame(<<>>)}
        \cup {TextFrame(d) : d \in {e \in Documents : extract_payload(e) \in {None, <<>>}}}
FrameSamples == Frames \cup NoPayloadFrames

FrameRun == MaxPackets - 1

\* one iteration of "while True" in video_endpoint or audio_endpoint
Handle(c, message) ==
    /\ Deliver(c, message, FrameRun)
    /\ ex_in' = [conn |-> c, type |-> message.type]
    /\ ex_out' = Returns(PayloadOf(message))

NextFrames ==
    \/ Tick
    \/ \E c \in Conns : Connect(c)
    \/ \E c \in Conns, message \in FrameSamples : Handle(c, message)
    \/ \E c \in Conns : Disconnect(c)

SpecFrames == Init /\ [][NextFrames]_vars

----------------------------------------------------------------------------
(* The verdict of run_analysis_pipeline (src/main.py, lines 158-182), as a  *)
(* function of the three results gathered at line 154.  A probability is    *)
(* its number of hundredths (0.6 is 60), a sync distance its number of      *)
(* tenths (9.0 is 90); a result is a dict that may lack the key read.       *)

\* res.get(key, default)
Get(res, key, default) == IF key \in DOMAIN res THEN res[key] ELSE default

\* the decision of lines 173-176 on a failed sync check
should_ignore(visual_prob, sync_dist) ==
    visual_prob < 20 \/ (visual_prob < 50 /\ sync_dist <= 90)

Verdict(service_b_res, service_c_res, liveness_res) ==
    LET visual_prob == Get(service_b_res, "fake_probability", 0)
        sync_dist == Get(service_c_res, "average_distance", 1000)
        is_sync_good == Get(service_c_res, "is_sync_good", TRUE)
        is_liveness_fail == Get(liveness_res, "is_liveness_fail", FALSE)
        v0 == "REAL"
        v1 == IF visual_prob > 60 THEN "FAKE" ELSE v0
        v2 == IF ~is_sync_good /\ ~should_ignore(visual_prob, sync_dist)
              THEN "FAKE" ELSE v1
    IN  IF is_liveness_fail THEN "FAKE" ELSE v2

\* results of the three checks: every dict has other keys as well
Probabilities == {0, 19, 20, 49, 50, 60, 61, 100}
Distances == {-10, 85, 90, 91, 1000}
VisualResults ==
    {[is_fake |-> FALSE]}
        \cup {[is_fake |-> FALSE, fake_probability |-> p] : p \in Probabilities}
SyncResults ==
    {[status |-> "ok"]}
        \cup {[status |-> "ok", average_distance |-> d] : d \in Distances}
        \cup {[status |-> "ok", is_sync_good |-> g] : g \in BOOLEAN}
        \cup {[status |-> "ok", average_distance |-> d, is_sync_good |-> g] :
                 d \in Distances, g \in BOOLEAN}
LivenessResults ==
    {[blink_score |-> 0]}
        \cup {[blink_score |-> 0, is_liveness_fail |-> l] : l \in BOOLEAN}

InitVerdict ==
    /\ now = 0
    /\ video_buffer = <<>>
    /\ audio_buffer = <<>>
    /\ video_header = None
    /\ buffer_lock = "free"
    /\ conn = [c \in Conns |-> "closed"]
    /\ pc = "sleep"
    /\ wake_at = CHUNK_DURATION
    /\ current_video = <<>>
    /\ current_audio = <<>>
    /\ chunk_counter = 0
    /\ timestamp = 0
    /\ process = NoProcess
    /\ fs = <<>>
    /\ fs_log = {}
    /\ drained = [k \in {"video", "audio"} |-> <<>>]
    /\ arrivals = [k \in {"video", "audio"} |-> 0]
    /\ chunks = <<>>
    /\ ex_in \in [visual : VisualResults, sync : SyncResults,
                  liveness : LivenessResults]
    /\ ex_out = NotCalled
    /\ inbox = {}
    /\ forwarded = {}

run_analysis_pipeline ==
    /\ ~ex_out.done
    /\ ex_out' = Returns(Verdict(ex_in.visual, ex_in.sync, ex_in.liveness))
    /\ UNCHANGED <<bridgeVars, watcherVars, ex_in>>

NextVerdict == run_analysis_pipeline

SpecVerdict == InitVerdict /\ [][NextVerdict]_vars

----------------------------------------------------------------------------
(* Properties *)

RECURSIVE Flatten(_)
Flatten(batches) ==
    IF batches = <<>> THEN <<>> ELSE Head(batches) \o Flatten(Tail(batches))

Buffer(k) == IF k = "video" THEN video_buffer ELSE audio_buffer
Kinds == {"video", "audio"}

\* every packet appended so far, in the order drains returned them, followed
\* by the packets no drain has returned yet
Delivered(k) == Flatten(drained[k]) \o Buffer(k)

Finished(c) == c.outcome # "running"
ChunkTemps(c) ==
    {temp_video_path(c.ts, c.ctr), temp_audio_path(c.ts, c.ctr),
     ffmpeg_log_path(c.ts, c.ctr), temp_output_path(c.ts)}
IsFinalName(p) ==
    p.dir = "chunks" /\ p.prefix = "" /\ p.stem = "live_stream" /\ p.ext = "mp4"
Moves(p) == {e \in fs_log : e.op = "move" /\ e.path = p}

\* C1: every appended packet is returned by exactly one drain, in arrival
\* order: the drained batches followed by the live buffer list the packets
\* 1..n of each kind once each and in order, and a drain returns the whole
\* buffer and leaves it empty, so no packet is left behind by a later drain.
C1_EveryPacketOnceInOrder ==
    \A k \in Kinds :
        /\ Len(Delivered(k)) = arrivals[k]
        /\ \A i \in 1..Len(Delivered(k)) : Delivered(k)[i].seq = i
C1_DrainTakesAll ==
    drained' # drained =>
        /\ video_buffer' = <<>> /\ audio_buffer' = <<>>
        /\ drained'["video"] = Append(drained["video"], video_buffer)
        /\ drained'["audio"] = Append(drained["audio"], audio_buffer)
        /\ current_video' = video_buffer /\ current_audio' = audio_buffer
\* C1: both hold of every step: each appended packet is returned by exactly
\* one drain, in arrival order.
C1_ExactlyOnce == [][C1_EveryPacketOnceInOrder' /\ C1_DrainTakesAll]_vars

\* two video connections are open, two drains have returned video packets
\* and another packet is waiting in the buffer
C1_Witness ==
    /\ conn["v1"] = "receiving" /\ conn["v2"] = "receiving"
    /\ Cardinality({i \in DOMAIN drained["video"] : drained["video"][i] # <<>>}) >= 2
    /\ video_buffer # <<>>

\* C2: a file at a final published path got there by exactly one move from
\* the hidden temporary name of the same chunk, made when the transcoder had
\* exited 0 and the output existed and was larger than the minimum; no final
\* path is ever written directly.
C2_PublishedOnlyByMove ==
    /\ \A p \in DOMAIN fs :
           IsFinalName(p) =>
               /\ Cardinality(Moves(p)) = 1
               /\ \A e \in Moves(p) :
                      /\ e.src = [p EXCEPT !.prefix = ".temp_"]
                      /\ e.rc = 0
                      /\ e.size > MIN_SIZE
               /\ fs[p].size > MIN_SIZE
               /\ \E i \in DOMAIN chunks :
                      /\ chunks[i].ts = p.ts /\ chunks[i].rc = 0
                      /\ chunks[i].existed /\ chunks[i].size > MIN_SIZE
    /\ \A e \in fs_log : IsFinalName(e.path) => e.op = "move"

C2_Witness == \E p \in DOMAIN fs : IsFinalName(p)

\* C3: a chunk whose transcoder exited 0 with an output larger than the
\* minimum is at its final path once its tick is over and none of its
\* temporary files remain; and whatever is in the publish directory under a
\* name that is not hidden is the final file of a published chunk.
C3_SuccessPublishesAndCleans ==
    /\ \A i \in DOMAIN chunks :
           LET c == chunks[i] IN
           (Finished(c) /\ c.rc = 0 /\ c.existed /\ c.size > MIN_SIZE) =>
               /\ Exists(fs, final_output_path(c.ts))
               /\ \A p \in ChunkTemps(c) : ~Exists(fs, p)
    /\ \A p \in DOMAIN fs :
           (p.dir = "chunks" /\ p.prefix = "") =>
               \E i \in DOMAIN chunks :
                   /\ p = final_output_path(chunks[i].ts)
                   /\ chunks[i].outcome = "published"

\* a chunk with audio was published and its tick is over
C3_Witness ==
    \E i \in DOMAIN chunks :
        /\ chunks[i].outcome = "published"
        /\ Removed(temp_audio_path(chunks[i].ts, chunks[i].ctr)) \in fs_log
        /\ Removed(temp_video_path(chunks[i].ts, chunks[i].ctr)) \in fs_log

\* C4: after a tick whose transcoder exited non-zero there is no file at the
\* chunk's final path, no temporary output, and the chunk's log is still
\* there.
C4_FailureKeepsLog ==
    \A i \in DOMAIN chunks :
        LET c == chunks[i] IN
        (Finished(c) /\ c.rc # 0) =>
            /\ ~Exists(fs, final_output_path(c.ts))
            /\ ~Exists(fs, temp_output_path(c.ts))
            /\ Exists(fs, ffmpeg_log_path(c.ts, c.ctr))

\* the transcoder had written an output before it exited non-zero
C4_Witness ==
    \E i \in DOMAIN chunks :
        /\ chunks[i].outcome = "failed" /\ chunks[i].existed
        /\ Removed(temp_output_path(chunks[i].ts)) \in fs_log

\* C5: after a tick whose transcoder exited 0 with a missing output or one
\* not larger than the minimum, the chunk is not published, no temporary
\* output remains and the chunk's log is still there.
C5_DiscardKeepsLog ==
    \A i \in DOMAIN chunks :
        LET c == chunks[i] IN
        (Finished(c) /\ c.rc = 0 /\ (~c.existed \/ c.size <= MIN_SIZE)) =>
            /\ ~Exists(fs, final_output_path(c.ts))
            /\ ~Exists(fs, temp_output_path(c.ts))
            /\ Exists(fs, ffmpeg_log_path(c.ts, c.ctr))

\* C6: a tick that drains no video writes and removes no file, starts no
\* transcoder, leaves the chunk counter alone and goes back to sleep, also
\* when it drained audio.
C6_EmptyTickStep ==
    (drained' # drained /\ current_video' = <<>>) =>
        /\ fs' = fs /\ fs_log' = fs_log
        /\ process' = process /\ chunks' = chunks
        /\ chunk_counter' = chunk_counter
        /\ pc' = "sleep"
\* C6: every step that is a tick with no drained video is such a no-op.
C6_EmptyTickIsNoOp == [][C6_EmptyTickStep]_vars

\* a tick has drained audio and no video, and was skipped
C6_Witness ==
    /\ pc = "sleep" /\ drained["video"] # <<>>
    /\ current_video = <<>> /\ current_audio # <<>>
    /\ chunk_counter = 0 /\ fs = <<>>

\* C7: a tick whose first and last drained video packets are less than the
\* minimum duration apart writes no file and starts no transcoder.
C7_ShortTickStep ==
    (/\ drained' # drained
     /\ current_video' # <<>>
     /\ current_video'[Len(current_video')].time - current_video'[1].time
            < MIN_DURATION) =>
        /\ fs' = fs /\ fs_log' = fs_log
        /\ process' = process /\ chunks' = chunks
        /\ pc' = "sleep"
\* C7: every step that is a tick with too short a video span produces nothing.
C7_ShortTickProducesNothing == [][C7_ShortTickStep]_vars

\* a tick has drained video spanning less than the minimum and was skipped
C7_Witness ==
    /\ pc = "sleep" /\ current_video # <<>>
    /\ current_video[Len(current_video)].time - current_video[1].time < MIN_DURATION
    /\ fs = <<>>

\* C8: the header is None until the first non-empty video payload is
\* extracted, is that payload from then on, and once set no step changes it.
C8_HeaderIsFirstPayload ==
    video_header = IF Delivered("video") = <<>> THEN None
                   ELSE Delivered("video")[1].data
C8_HeaderStep == video_header # None => video_header' = video_header
\* C8: after every step the header is the first video payload, and no step
\* changes a header that is set.
C8_HeaderWriteOnce == [][C8_HeaderIsFirstPayload' /\ C8_HeaderStep]_vars

\* the header is set; a later video packet with another payload, an audio
\* packet and a drain have followed, and a second video connection is open
C8_Witness ==
    /\ video_header # None
    /\ \E i \in DOMAIN Delivered("video") : Delivered("video")[i].data # video_header
    /\ arrivals["audio"] >= 1
    /\ drained["video"] # <<>>
    /\ conn["v1"] = "receiving" /\ conn["v2"] = "receiving"

\* C9: while a chunk is with the transcoder, its temporary video file is the
\* header followed by the payloads of the video packets the tick drained, in
\* arrival order.
C9_VideoFileIsHeaderThenPackets ==
    (pc = "wait" /\ process.st = "running") =>
        LET batch == drained["video"][Len(drained["video"])]
            file == fs[temp_video_path(timestamp, chunk_counter)]
        IN  /\ current_video = batch
            /\ video_header # None
            /\ file.bytes = video_header \o Concat(batch)
            /\ \A i \in 1..(Len(batch) - 1) : batch[i].seq < batch[i + 1].seq

\* a later tick's file: the packet the header came from was drained by an
\* earlier tick, and this tick's first payload differs from the header
C9_Witness ==
    /\ pc = "wait" /\ process.st = "running"
    /\ current_video[1].seq > 1
    /\ current_video[1].data # video_header

----------------------------------------------------------------------------
(* Properties of extract_payload *)

IsString(doc, key) == Has(doc, key) /\ doc.m[key].t = "str"
ShapeA(doc) == HasNested(doc) /\ Nested(doc).t = "str"
ShapeB(doc) == IsString(doc, "data")
ShapeC(doc) == IsString(doc, "payload")
Decodes(s) == b64decode(s).ok

\* the payload the claim as written expects: the first shape, in priority
\* order, whose decode succeeds
FirstSuccessful(doc) ==
    IF ShapeA(doc) /\ Decodes(Nested(doc).s) THEN b64decode(Nested(doc).s).bytes
    ELSE IF ShapeB(doc) /\ Decodes(doc.m["data"].s) THEN b64decode(doc.m["data"].s).bytes
    ELSE IF ShapeC(doc) /\ Decodes(doc.m["payload"].s)
    THEN b64decode(doc.m["payload"].s).bytes
    ELSE None

\* C10 as written: the first successful decode wins, so a lower-priority
\* shape supplies the payload when a higher-priority one fails to decode.
C10_FirstSuccessfulDecodeWins ==
    ex_out.done => ex_out.value = FirstSuccessful(ex_in)

\* C10: the shapes are tried in the order (a), (b), (c); the first one whose
\* field is present as a string is the only one decoded, and its decode is
\* the result: the bytes, or no payload when the decode fails, whatever a
\* lower-priority shape holds.  A lower-priority shape is used only when the
\* higher ones are absent or not strings.
C10_FirstStringShapeDecides ==
    ex_out.done =>
        LET chosen ==
                IF ShapeA(ex_in) THEN {Nested(ex_in).s}
                ELSE IF ShapeB(ex_in) THEN {ex_in.m["data"].s}
                ELSE IF ShapeC(ex_in) THEN {ex_in.m["payload"].s}
                ELSE {}
        IN  /\ chosen = {} => ex_out.value = None
            /\ \A s \in chosen :
                   /\ Decodes(s) => ex_out.value = b64decode(s).bytes
                   /\ ~Decodes(s) => ex_out.value = None

\* a higher-priority string failed to decode while the payload field held a
\* string that decodes
C10_Witness ==
    /\ ex_out.done
    /\ ShapeA(ex_in) \/ ShapeB(ex_in)
    /\ ShapeC(ex_in) /\ Decodes(ex_in.m["payload"].s)
    /\ ex_out.value = None

\* the byte sequences a frame of the given shape was built from
SentAs(doc) ==
    {x \in [bytes : ByteSeqs, shape : Shapes] : doc = Wrap(x.shape, b64encode(x.bytes))}

\* C11: for every byte sequence B, extract_payload applied to a text frame
\* that carries base64(B) as data.data.buffer, as a top-level data string or
\* as a payload string returns exactly B.
C11_RoundTrip ==
    ex_out.done => \A x \in SentAs(ex_in) : ex_out.value = x.bytes

\* a sequence whose encoding is padded came back from the payload shape
C11_Witness ==
    /\ ex_out.done
    /\ \E x \in SentAs(ex_in) :
           x.shape = "payload" /\ Len(x.bytes) = 2 /\ ex_out.value = x.bytes

\* the frames for which the claim expects no payload
NoShape(doc) == ~ShapeA(doc) /\ ~ShapeB(doc) /\ ~ShapeC(doc)
ChosenFails(doc) ==
    IF ShapeA(doc) THEN ~Decodes(Nested(doc).s)
    ELSE IF ShapeB(doc) THEN ~Decodes(doc.m["data"].s)
    ELSE ShapeC(doc) /\ ~Decodes(doc.m["payload"].s)

\* C12: extract_payload never raises: no exception leaves it, and for text
\* that is not JSON, for JSON that matches none of the three shapes (documents
\* that are not objects included) and for a string field that fails to decode
\* as base64 it returns the no-payload value.
C12_NeverRaises ==
    ex_out.done =>
        /\ ex_out.value # Raised
        /\ (ex_in.t = "invalid" \/ ex_in.t # "obj" \/ NoShape(ex_in) \/ ChosenFails(ex_in))
               => ex_out.value = None

\* a data string that is not valid base64 gave no payload
C12_Witness ==
    /\ ex_out.done
    /\ ShapeB(ex_in) /\ ~ShapeA(ex_in) /\ ~Decodes(ex_in.m["data"].s)
    /\ ex_out.value = None

Closed(k) == \A c \in Conns : Kind(c) = k => conn[c] = "closed"

\* a step that ends the receive loop of connection c
Ends(c) == conn[c] = "receiving" /\ conn'[c] = "closed"

C13_EndStep ==
    /\ \A c \in Conns :
           Ends(c) =>
               /\ \A d \in Conns \ {c} : conn'[d] = conn[d]
               /\ video_buffer' = video_buffer /\ audio_buffer' = audio_buffer
               /\ pc' = pc /\ wake_at' = wake_at /\ process' = process
               /\ chunk_counter' = chunk_counter /\ drained' = drained
    /\ \A k \in Kinds :
           (Closed(k) /\ Closed(k)') => Len(Buffer(k)') <= Len(Buffer(k))
    /\ drained' # drained =>
           current_video' = video_buffer /\ current_audio' = audio_buffer

C13_OthersGoOn ==
    /\ \A d \in Conns :
           (conn[d] = "receiving" /\ Accepted < MaxPackets)
               => ENABLED Receive(d, BinaryFrame(<<1>>))
    /\ (pc = "sleep" /\ now >= wake_at) => ENABLED (SkipEmpty \/ SkipShort \/ StartChunk)

\* C13: a disconnect or transport error on one receiver ends only that
\* receiver's loop: every other connection keeps its state and a receiving one
\* can still append, the scheduler's position, sleep and transcoder are
\* untouched and a due tick can always be taken, the buffers keep the packets
\* of the ended receiver until a drain returns them, and a kind whose
\* receivers have all ended gets no new packets.
C13_DisconnectIsLocal == [][C13_EndStep]_vars /\ []C13_OthersGoOn

\* both video receivers have ended with a packet of theirs still buffered,
\* the scheduler is due for a tick, and the audio receiver has appended
C13_Witness ==
    /\ Closed("video") /\ video_buffer # <<>>
    /\ conn["a1"] = "receiving" /\ audio_buffer # <<>>
    /\ pc = "sleep" /\ now >= wake_at

Packets(batch) == {batch[i] : i \in DOMAIN batch}
Failed(c) == c.outcome \in {"failed", "missing", "small", "error"}

\* the packets a chunk was made from, per kind
BatchOf(c, k) == Packets(drained[k][c.tick])

\* a step in which a chunk ends without being published
FailsNow ==
    /\ chunks' # <<>>
    /\ Failed(chunks'[Len(chunks')])
    /\ Len(chunks') > Len(chunks) \/ chunks[Len(chunks)].outcome = "running"

C14_FailureStep ==
    FailsNow =>
        /\ pc' = "sleep"
        /\ wake_at' = now + CHUNK_DURATION
        /\ chunk_counter' = chunk_counter + 1
        /\ \A k \in Kinds :
               Packets(drained'[k][chunks'[Len(chunks')].tick])
                   \cap Packets(Buffer(k)') = {}

C14_NeverRetried ==
    /\ \A i \in DOMAIN chunks, k \in Kinds :
           Failed(chunks[i]) =>
               /\ BatchOf(chunks[i], k) \cap Packets(Buffer(k)) = {}
               /\ \A j \in DOMAIN drained[k] :
                      j # chunks[i].tick =>
                          BatchOf(chunks[i], k) \cap Packets(drained[k][j]) = {}
    /\ (pc = "sleep" /\ now >= wake_at) => ENABLED (SkipEmpty \/ SkipShort \/ StartChunk)

\* C14: a chunk that fails (the transcoder exits non-zero, the output is
\* missing or not larger than the minimum, or writing a temporary file,
\* starting the transcoder or the rename raises) leaves the scheduler in its
\* sleep with the counter advanced and the next tick due one period later,
\* and the packets the failed tick drained are in neither buffer and in no
\* other drained batch, so no later chunk contains them.
C14_FailureIsNotFatal == [][C14_FailureStep]_vars /\ []C14_NeverRetried

\* the rename of a large enough output failed, and a later tick has drained
C14_Witness ==
    \E i \in DOMAIN chunks :
        /\ chunks[i].outcome = "error" /\ chunks[i].existed
        /\ Len(drained["video"]) > chunks[i].tick
        /\ pc = "sleep"

\* the batch of the last tick, once a tick has been taken
Ticked == drained["video"] # <<>>
LastBatch == drained["video"][Len(drained["video"])]
Span(batch) == batch[Len(batch)].time - batch[1].time

\* C15 as written, on its scenario: a tick that drained 100 video packets
\* spanning 10 seconds hands the muxer a frame rate of about 10.
C15_HundredOverTenGivesTen ==
    (Ticked /\ Len(LastBatch) = 100 /\ Span(LastBatch) = 10) =>
        /\ process.st = "running"
        /\ process.fps >= 950 /\ process.fps <= 1050

\* C15: the frame rate handed to the muxer is the number of drained video
\* packets divided by the seconds between the first and the last packet,
\* rounded to hundredths and clamped into [1, 60]; only a batch spanning at
\* least MIN_DURATION seconds is handed over, so 150 packets over 15 seconds
\* give 10.00 while 100 packets over 10 seconds are skipped and give the
\* muxer nothing.
C15_FpsIsCountOverSpan ==
    /\ pc = "wait" =>
           LET n == Len(LastBatch)
               d == Span(LastBatch)
               fps == process.fps
           IN  /\ current_video = LastBatch
               /\ d >= MIN_DURATION
               /\ fps >= 100 * FPS_MIN /\ fps <= 100 * FPS_MAX
               /\ (fps > 100 * FPS_MIN /\ fps < 100 * FPS_MAX) =>
                      (2 * (fps * d - 100 * n) <= d /\ 2 * (100 * n - fps * d) <= d)
               /\ fps = 100 * FPS_MIN => 2 * (100 * n - fps * d) <= d
               /\ fps = 100 * FPS_MAX => 2 * (fps * d - 100 * n) <= d
               /\ (n = 150 /\ d = 15) => fps = 1000
    /\ (Ticked /\ LastBatch # <<>> /\ Span(LastBatch) < MIN_DURATION) =>
           (pc = "sleep" /\ process.st = "none" /\ chunks = <<>>)

\* 150 packets over 15 seconds reached the muxer at 10.00 frames per second
C15_Witness ==
    /\ pc = "wait" /\ process.st = "running"
    /\ Len(LastBatch) = 150 /\ Span(LastBatch) = 15
    /\ process.fps = 1000

\* the packets of kind k appended after chunk c ended, at the clock reading
\* at which it ended
RightAfter(c, k) ==
    {p \in Packets(Flatten(drained[k])) \cup Packets(Buffer(k)) :
        p.seq > c.seen[k] /\ p.time = c.ended}

\* C16, with the configured number of consecutive successes taken as one:
\* the scheduler pauses after a published chunk and discards what both
\* buffers accumulated during the pause, so a packet appended right after the
\* publication is in no later chunk.
C16_CooldownDiscards ==
    \A i \in DOMAIN chunks, j \in DOMAIN chunks, k \in Kinds :
        (i < j /\ chunks[i].outcome = "published") =>
            RightAfter(chunks[i], k) \cap BatchOf(chunks[j], k) = {}

C17_State ==
    pc = "wait" =>
        /\ buffer_lock = "free"
        /\ \A c \in Conns :
               (conn[c] = "receiving" /\ Accepted < MaxPackets)
                   => ENABLED Receive(c, BinaryFrame(<<1>>))

C17_Step ==
    /\ (pc = "wait" /\ arrivals' # arrivals) =>
           \A k \in Kinds :
               /\ Len(Buffer(k)') = Len(Buffer(k)) + arrivals'[k] - arrivals[k]
               /\ SubSeq(Buffer(k)', 1, Len(Buffer(k))) = Buffer(k)
    /\ drained' # drained =>
           \A k \in Kinds :
               /\ drained'[k][Len(drained'[k])] = Buffer(k)
               /\ Buffer(k)' = <<>>

\* C17: while the scheduler waits for the transcoder to exit the buffer lock
\* is free and every receiving connection can accept a frame and append its
\* packet; a packet appended during the wait stays in its buffer, and the
\* next drain returns the whole buffer.
C17_ReceiversRunDuringWait == [][C17_Step]_vars /\ []C17_State

\* a video packet that arrived while a chunk was being transcoded was
\* returned by a later drain
C17_Witness ==
    \E i \in DOMAIN chunks, j \in DOMAIN drained["video"] :
        /\ Finished(chunks[i]) /\ j > chunks[i].tick
        /\ \E p \in Packets(drained["video"][j]) : p.seq <= chunks[i].seen["video"]

Published(i) == chunks[i].outcome = "published"

\* the final path a published chunk was moved to
FinalOf(i) == {e.path : e \in {x \in fs_log : x.op = "move" /\ x.path.ts = chunks[i].ts}}

\* C18: the final name of every published chunk is derived from its capture
\* timestamp and from its counter value, so two chunks with different
\* counter values have different final names.
C18_FinalNameCarriesCounter ==
    /\ \A i \in DOMAIN chunks :
           Published(i) =>
               \A p \in FinalOf(i) : p.ts = chunks[i].ts /\ p.ctr = chunks[i].ctr
    /\ \A i \in DOMAIN chunks, j \in DOMAIN chunks :
           (Published(i) /\ Published(j) /\ chunks[i].ctr # chunks[j].ctr)
               => FinalOf(i) \cap FinalOf(j) = {}

\* the temporary paths chunk i used: the files written for it, and the
\* output path on its transcoder's command line
TempsOf(i) ==
    {e.path : e \in {x \in fs_log : x.op = "write" /\ x.path.ts = chunks[i].ts}}
        \cup (IF i = Len(chunks) /\ process.st # "none" /\ process.out.ts = chunks[i].ts
              THEN {process.out} ELSE {})

\* C19: no two ticks that reach the muxer use the same path for a temporary
\* file (video input, audio input, transcoder log, hidden temporary output):
\* each temporary name carries the chunk's timestamp and its counter value.
C19_TempNamesCarryCounter ==
    /\ \A i \in DOMAIN chunks, j \in DOMAIN chunks :
           i # j => TempsOf(i) \cap TempsOf(j) = {}
    /\ \A i \in DOMAIN chunks :
           \A p \in TempsOf(i) : p.ts = chunks[i].ts /\ p.ctr = chunks[i].ctr

IsHiddenTemp(p) == p.dir = "chunks" /\ p.prefix = ".temp_" /\ p.ext = "mp4"

\* the events the watcher handles in a step
Handled == {e \in inbox : e \notin inbox'}

C20_State ==
    /\ \A p \in forwarded : p.ext = "mp4" /\ p.prefix # ".temp_"
    /\ \A p \in forwarded : ~IsHiddenTemp(p) /\ IsFinalName(p) /\ Moves(p) # {}
    /\ \A e \in fs_log :
           e.op = "move" =>
               \/ e.path \in forwarded
               \/ \E x \in inbox : x.kind = "moved" /\ x.dest_path = e.path

C20_Step ==
    \A e \in Handled :
        /\ (e.kind = "moved" /\ IsFinalName(e.dest_path)) =>
               forwarded' = forwarded \cup {e.dest_path}
        /\ (e.kind = "closed" /\ IsFinalName(e.src_path)) =>
               forwarded' = forwarded \cup {e.src_path}
        /\ (e.kind = "closed" /\ IsHiddenTemp(e.src_path)) => forwarded' = forwarded

\* C20: the watcher posts a path only when its file name ends with .mp4 and
\* does not start with a dot, on the closed event (source path) and on the
\* moved event (destination path): the hidden temporary output of a chunk is
\* never posted, every posted path is a final name a chunk was moved to, and
\* the move of a published chunk is posted when its event is handled.
C20_WatcherForwardsPublishedOnly == [][C20_Step]_vars /\ []C20_State

\* the close of the hidden temporary output and the move into place have
\* both been handled, and only the final path was posted
C20_Witness ==
    /\ inbox = {}
    /\ \E p \in forwarded : IsFinalName(p)
    /\ \E e \in fs_log : e.op = "write" /\ IsHiddenTemp(e.path)

----------------------------------------------------------------------------
\* C21: when the system is shut down while a transcoder invocation is in
\* flight, the transcoder is terminated by the same signal: the step that
\* stops the bridge leaves no transcoder running, and none runs afterwards.
C21_ShutdownStep ==
    (Up /\ ~Up' /\ process.st = "running")
        => /\ process'.st = "terminated"
           /\ process'.out = process.out

C21_NoOrphan == ~Up => process.st # "running"

----------------------------------------------------------------------------
\* C22: the scheduler goes on to its next tick whatever the transcoder does:
\* in every state where the transcoder of the current chunk has hung, the
\* scheduler still has a step to take (it is not blocked on the transcoder).
C22_HungTranscoderDoesNotBlock ==
    process.st = "hung" => ENABLED SchedulerStep

\* what the code does instead: once the transcoder has hung the scheduler
\* stays at its wait and no buffer is drained again
C22_HungStep ==
    process.st = "hung"
        => process'.st = "hung" /\ pc' = "wait" /\ drained' = drained
C22_HungBlocksForGood == [][C22_HungStep]_vars

----------------------------------------------------------------------------
\* C23: a frame from which no payload, or an empty one, is extracted is
\* dropped without any other effect: the step that handles it leaves both
\* buffers, the stream header and every connection as they were, and the
\* receiver that handled it is still receiving and takes the next frame.
C23_DropStep ==
    ((ex_in' # ex_in \/ ex_out' # ex_out) /\ ex_out'.value \in {None, <<>>})
        => /\ video_buffer' = video_buffer
           /\ audio_buffer' = audio_buffer
           /\ video_header' = video_header
           /\ arrivals' = arrivals
           /\ conn' = conn
           /\ conn'[ex_in'.conn] = "receiving"

C23_NextFrame ==
    (ex_out.done /\ ex_out.value \in {None, <<>>} /\ conn[ex_in.conn] = "receiving")
        => /\ ENABLED Handle(ex_in.conn, BinaryFrame(<<>>))
           /\ Accepted < FrameRun => ENABLED Handle(ex_in.conn, BinaryFrame(<<1>>))

C23_NoPayloadFrameIsDropped == [][C23_DropStep]_vars /\ []C23_NextFrame

C23_Witness ==
    /\ ex_out.done
    /\ ex_out.value = None
    /\ ex_in.type = "text"
    /\ ex_in.conn = "v1"
    /\ conn["v1"] = "receiving"
    /\ video_buffer # <<>>
    /\ video_header # None

----------------------------------------------------------------------------
\* C24: the chunk counter goes up by exactly one for every tick that passed
\* the empty-video and minimum-duration checks, however the chunk ended
\* (published, transcoder failure, undersized or missing output, exception),
\* and no other step changes it: it never goes down and skipped ticks leave it.
Ticks == Len(drained["video"])
Admitted == Len(chunks)
Over == Cardinality({i \in 1..Len(chunks) : chunks[i].outcome # "running"})

C24_CounterStep ==
    /\ chunk_counter' \in {chunk_counter, chunk_counter + 1}
    /\ chunk_counter' = chunk_counter + 1 <=> Over' = Over + 1
    /\ (Ticks' > Ticks /\ Admitted' = Admitted) => chunk_counter' = chunk_counter

C24_CounterState ==
    /\ chunk_counter = Over
    /\ Admitted - Over = (IF pc = "wait" THEN 1 ELSE 0)
    /\ \A i \in 1..Len(chunks) : chunks[i].ctr = i - 1

C24_CounterCountsAdmittedTicks == [][C24_CounterStep]_vars /\ []C24_CounterState

C24_Witness ==
    /\ chunk_counter = 1
    /\ chunks # <<>>
    /\ chunks[1].outcome = "error"
    /\ Ticks = 2

----------------------------------------------------------------------------
\* C25: with video arriving continuously and a transcoder that always
\* succeeds, the minimum-duration check rejects only the boundary-partial
\* tick at the start of the stream: every later tick of the running stream
\* passes it (and so a chunk is published).
Rejected(j) == drained["video"][j] # <<>> /\ TooShort(drained["video"][j])
StreamStart(j) == \A i \in 1..(j - 1) : drained["video"][i] = <<>>

C25_OnlyBoundaryTicksRejected ==
    \A j \in 1..Ticks : Rejected(j) => StreamStart(j)

\* what the code does instead: a stream that has run for the whole horizon
\* may have had every one of its ticks rejected and nothing published
C25_SteadyStreamNeverPublished ==
    /\ now = SteadyEnd
    /\ arrivals["video"] = SteadyRun
    /\ Ticks = 3
    /\ \A j \in 1..Ticks : Rejected(j)
    /\ chunks = <<>>

----------------------------------------------------------------------------
\* C26: run_analysis_pipeline returns FAKE exactly when the visual fake
\* probability is above 0.6, or the sync check reports is_sync_good false,
\* or the liveness check reports failure; otherwise it returns REAL.
Reports(res, key, value) == key \in DOMAIN res /\ res[key] = value

C26_FakeExactlyWhenAnyCheckFails ==
    ex_out.done =>
        /\ ex_out.value \in {"FAKE", "REAL"}
        /\ ex_out.value = "FAKE" <=>
              \/ Get(ex_in.visual, "fake_probability", 0) > 60
              \/ Reports(ex_in.sync, "is_sync_good", FALSE)
              \/ Reports(ex_in.liveness, "is_liveness_fail", TRUE)

\* what the code does instead: a failed sync check counts only when the
\* visual probability is at least 0.2 and, below 0.5, the distance is over 9.0
C26_SyncFailureMayBeIgnored ==
    ex_out.done =>
        /\ ex_out.value \in {"FAKE", "REAL"}
        /\ ex_out.value = "FAKE" <=>
              LET p == Get(ex_in.visual, "fake_probability", 0)
                  d == Get(ex_in.sync, "average_distance", 1000)
              IN  \/ p > 60
                  \/ /\ Reports(ex_in.sync, "is_sync_good", FALSE)
                     /\ p >= 20
                     /\ p >= 50 \/ d > 90
                  \/ Reports(ex_in.liveness, "is_liveness_fail", TRUE)

----------------------------------------------------------------------------
\* C27: audio drained on a skipped tick is discarded for good: it is in
\* neither buffer afterwards and in no chunk's audio file; every chunk was
\* made from a tick that drained video (no audio-only chunk), and a chunk's
\* audio file holds exactly the audio drained on that chunk's own tick.
Skipped(j) == \A i \in 1..Len(chunks) : chunks[i].tick # j
AudioFileOf(c) == temp_audio_path(c.ts, c.ctr)

C27_SkippedAudioIsGone ==
    \A j \in 1..Ticks :
        Skipped(j) =>
            /\ Packets(drained["audio"][j]) \cap Packets(audio_buffer) = {}
            /\ \A i \in 1..Len(chunks) :
                   Packets(drained["audio"][j]) \cap BatchOf(chunks[i], "audio") = {}

C27_ChunkAudioIsItsOwnTick ==
    \A i \in 1..Len(chunks) :
        LET c == chunks[i]
            own == drained["audio"][c.tick]
        IN  /\ drained["video"][c.tick] # <<>>
            /\ Wrote(AudioFileOf(c)) \in fs_log => own # <<>>
            /\ Exists(fs, AudioFileOf(c)) => fs[AudioFileOf(c)] = Raw(Concat(own))
            /\ (i = Len(chunks) /\ c.outcome = "running")
                   => (process.has_audio <=> own # <<>>)

C27_SkippedAudioIsDiscarded == C27_SkippedAudioIsGone /\ C27_ChunkAudioIsItsOwnTick

\* audio was drained on a skipped tick, and a later chunk has an audio file
C27_Witness ==
    \E j \in 1..Ticks, i \in 1..Len(chunks) :
        /\ Skipped(j)
        /\ drained["audio"][j] # <<>>
        /\ chunks[i].tick > j
        /\ Exists(fs, AudioFileOf(chunks[i]))

----------------------------------------------------------------------------
\* C28: at most one transcoder is in flight and ticks do not overlap: a
\* transcoder runs only while the scheduler waits for it, the sleep for the
\* next tick starts when the chunk's validation and cleanup are over, and a
\* drain comes no sooner than the period after the previous chunk ended
\* (the period plus that chunk's processing time after its own drain).
InFlight == {i \in 1..Len(chunks) : chunks[i].outcome = "running"}
StartOf(c) == c.ts \div 1000

C28_State ==
    /\ Cardinality(InFlight) <= 1
    /\ process.st = "running" => pc = "wait" /\ InFlight = {Len(chunks)}
    /\ pc = "sleep" => InFlight = {}
    /\ \A i \in 1..Len(chunks) :
           /\ Finished(chunks[i]) => chunks[i].ended >= StartOf(chunks[i])
           /\ i < Len(chunks) =>
                  /\ Finished(chunks[i])
                  /\ StartOf(chunks[i + 1]) >= chunks[i].ended + CHUNK_DURATION
    /\ (pc = "sleep" /\ chunks # <<>> /\ chunks[Len(chunks)].tick = Ticks)
           => wake_at = chunks[Len(chunks)].ended + CHUNK_DURATION

C28_DrainStep ==
    Ticks' > Ticks
        => /\ pc = "sleep"
           /\ process.st # "running"
           /\ now >= wake_at
           /\ chunks # <<>> =>
                  now - StartOf(chunks[Len(chunks)])
                      >= CHUNK_DURATION
                         + (chunks[Len(chunks)].ended - StartOf(chunks[Len(chunks)]))

C28_TicksDoNotOverlap == [][C28_DrainStep]_vars /\ []C28_State

\* a chunk whose processing took time is over and the next sleep runs from
\* its end
C28_Witness ==
    /\ chunks # <<>>
    /\ Finished(chunks[Len(chunks)])
    /\ chunks[Len(chunks)].ended > StartOf(chunks[Len(chunks)])
    /\ pc = "sleep"
    /\ wake_at = chunks[Len(chunks)].ended + CHUNK_DURATION

====
